---- MODULE Spec2Model ----
(***************************************************************************)
(* The EdgeCoder desktop shell (desktop/src-tauri/src/main.rs): the agent  *)
(* lifecycle supervisor (probe, locate, spawn, register, kill on window    *)
(* destruction), the per-launch token, the deep-link bridge and the        *)
(* metrics query.                                                          *)
(*                                                                         *)
(* An Option<T> of the source is a sequence of length at most one: <<>> is *)
(* None and <<x>> is Some(x).  A string the code builds is a sequence of   *)
(* one-character strings.                                                  *)
(***************************************************************************)
EXTENDS Integers, Sequences, FiniteSets, TLC

\* ------------------------------------------------------------- bounds
MaxNanos == 1
MaxPid == 2
MaxWindows == 2
MaxLinks == 3
NumHosts == 2
MaxTokNanos == 11
MaxTokPid == 11
NumHandlers == 3
MaxDisks == 2
MaxBytes == 2
MaxMemUnits == 2

\* ------------------------------------------------------ the environment
\* resource_dir().join("agent"), the fixed default and one override value.
BundledDir == "$RESOURCE/agent"
DefaultInstallDir == "/opt/edgecoder/app"
CustomInstallDir == "/srv/edgecoder"
AgentDirs == {BundledDir, DefaultInstallDir, CustomInstallDir}

\* The system clock relative to UNIX_EPOCH, in nanoseconds; a negative
\* reading is a clock set before the epoch, for which duration_since fails.
ClockReads == -1 .. MaxNanos
Pids == 1 .. MaxPid

WindowLabels == {"main", "settings"}
WindowEvents == {"Destroyed", "CloseRequested", "Focused"}

VARIABLES
  \* the machine the launch runs on (read, never written, by the program;
  \* it stays as it is for the time of a launch)
  portListening,     \* something accepts connections on 127.0.0.1:4301
  resourceDirOk,     \* app.path().resource_dir() is Ok
  entryDirs,         \* the directories d for which d/dist/index.js exists
  installDirVar,     \* EDGECODER_INSTALL_DIR: <<>> unset, <<d>> set to d
  clock,             \* SystemTime::now() at the start of main
  pid,               \* std::process::id()
  \* the program
  phase,             \* "start", "built", "running", "failed", "exited"
  local_token,       \* main's local_token, <<>> before it is formatted
  LocalToken,        \* the managed LocalToken state: Option<String>
  agentManaged,      \* AgentProcess has been registered with app.manage
  AgentProcess,      \* the Mutex<Option<Child>> contents
  supervisor,        \* the supervisor's state after the startup sequence
  agentDir,          \* Option: the agent_dir start_agent resolved
  fallbackConsulted, \* start_agent read EDGECODER_INSTALL_DIR
  spawnAttempts,     \* number of Command::spawn calls
  spawned,           \* the children the OS created for this launch
  deepLinkSubscribed,\* on_open_url has a handler
  \* the child, as the OS sees it
  killCalls,         \* number of child.kill() calls issued
  lastKill,          \* Option: result of the last child.kill(), discarded
  \* windows and the UI
  windows,           \* labels of the webview windows that exist
  windowsCreated,    \* number of windows created so far
  lastEvent,         \* Option: the last window event dispatched
  destroyedSeen,     \* Destroyed events dispatched while a handle was stored
  tokenReads,        \* values get_local_token has returned
  arrived,           \* deep-link events in arrival order, with the window's presence
  evalCalls,         \* scripts passed to window.eval, in order
  \* several launches on one machine (SpecHosts)
  hostPc,            \* per host: "start", "probed", "done", "closed"
  hostSaw,           \* per host: what agent_already_running returned
  portAtProbe,       \* per host: whether the port was bound when it probed
  hostChild,         \* per host: its AgentProcess contents
  agentProc,         \* per host: its child, "none", "starting", "listening", "noport", "killed"
  portOwner,         \* Option: whose agent listens on 127.0.0.1:4301 (0: nobody's child)
  \* the token of successive launches (SpecToken)
  launches,          \* per launch so far: the clock, the pid and the token main formatted
  \* the metrics query (SpecMetrics)
  metrics,           \* Option: the machine's sample and, once queried, the SystemMetrics
  \* window-event closures running on separate threads (SpecLock)
  hPc,               \* per closure: "idle", "lock", "critical", "done"
  hEvent,            \* per closure: Option, the event it was handed
  hFoundHeld,        \* per closure: lock() found the mutex held and blocked
  hKills,            \* per closure: child.kill() calls it issued
  lockHolder         \* Option: the closure holding the AgentProcess mutex

envVars == <<portListening, resourceDirOk, entryDirs, installDirVar, clock, pid>>
progVars == <<phase, local_token, LocalToken, agentManaged, AgentProcess, supervisor,
              agentDir, fallbackConsulted, spawnAttempts, spawned, deepLinkSubscribed>>
childVars == <<killCalls, lastKill>>
uiVars == <<windows, windowsCreated, lastEvent, destroyedSeen, tokenReads, arrived, evalCalls>>
hostVars == <<hostPc, hostSaw, portAtProbe, hostChild, agentProc, portOwner>>
lockVars == <<hPc, hEvent, hFoundHeld, hKills, lockHolder>>
auxVars == <<launches, metrics, lockVars>>
vars == <<envVars, progVars, childVars, uiVars, hostVars, auxVars>>

\* --------------------------------------------------------- the token
DigitChar == <<"0", "1", "2", "3", "4", "5", "6", "7", "8", "9">>

\* Display of an unsigned integer: its decimal digits, most significant first.
RECURSIVE Dec(_)
Dec(n) == IF n < 10 THEN <<DigitChar[n + 1]>> ELSE Dec(n \div 10) \o <<DigitChar[(n % 10) + 1]>>

\* duration_since(UNIX_EPOCH).unwrap_or_default().as_nanos()
AsNanos(now) == IF now < 0 THEN 0 ELSE now

\* A format string without the separator before the process id.
FormatToken_NoSeparator(now, p) == <<"l", "o", "c", "a", "l", "-">> \o Dec(AsNanos(now)) \o Dec(p)

\* format!("local-{}-{}", nanos, pid)
FormatToken(now, p) == <<"l", "o", "c", "a", "l", "-">> \o Dec(AsNanos(now)) \o <<"-">> \o Dec(p)

\* get_local_token: state.0.clone()
get_local_token(state) == state[1]

\* ------------------------------------------------------ the supervisor
\* A probe that never finds the agent.
agent_already_running_Never(listening) == FALSE

\* TcpStream::connect("127.0.0.1:4301").is_ok()
agent_already_running(listening) == listening

\* resource_dir().ok().map(join "agent").filter(dist/index.js exists)
BundledCandidate(resOk, entries) ==
  IF resOk /\ BundledDir \in entries THEN <<BundledDir>> ELSE <<>>

\* A fallback that ignores EDGECODER_INSTALL_DIR.
FallbackDir_IgnoreEnv(envVar) == DefaultInstallDir

\* env::var("EDGECODER_INSTALL_DIR").unwrap_or_else("/opt/edgecoder/app")
FallbackDir(envVar) == IF envVar = <<>> THEN DefaultInstallDir ELSE envVar[1]

\* A locator that prefers an installation directory holding the entry file.
ResolveAgentDir_FallbackFirst(resOk, entries, envVar) ==
  IF FallbackDir(envVar) \in entries THEN FallbackDir(envVar)
  ELSE IF BundledCandidate(resOk, entries) # <<>> THEN BundledDir
  ELSE FallbackDir(envVar)

\* agent_dir, lines 72-83: the bundled candidate, or else the fallback.
ResolveAgentDir(resOk, entries, envVar) ==
  LET b == BundledCandidate(resOk, entries)
  IN IF b # <<>> THEN b[1] ELSE FallbackDir(envVar)

\* A command that leaves the administrative token out.
AgentCommand_NoAdminToken(dir, token) ==
  [program |-> "node", arg |-> "dist/index.js", current_dir |-> dir,
   EDGE_RUNTIME_MODE |-> "all-in-one",
   INFERENCE_AUTH_TOKEN |-> token,
   ADMIN_API_TOKEN |-> <<>>]

\* Command::new("node").arg(..).current_dir(..).env(..).env(..).env(..)
AgentCommand(dir, token) ==
  [program |-> "node", arg |-> "dist/index.js", current_dir |-> dir,
   EDGE_RUNTIME_MODE |-> "all-in-one",
   INFERENCE_AUTH_TOKEN |-> token,
   ADMIN_API_TOKEN |-> token]

\* A start_agent that tries the spawn a second time when the first fails.
start_agent_Retry(listening, resOk, entries, envVar, spawnOk, token) ==
  IF agent_already_running(listening)
  THEN [outcome |-> "AlreadyRunning", child |-> <<>>, dir |-> <<>>,
        fallback |-> FALSE, attempts |-> 0]
  ELSE LET dir == ResolveAgentDir(resOk, entries, envVar)
           fb == BundledCandidate(resOk, entries) = <<>>
       IN IF dir \notin entries
          THEN [outcome |-> "NotFound", child |-> <<>>, dir |-> <<dir>>,
                fallback |-> fb, attempts |-> 0]
          ELSE [outcome |-> "Running", child |-> <<AgentCommand(dir, token)>>,
                dir |-> <<dir>>, fallback |-> fb, attempts |-> IF spawnOk THEN 1 ELSE 2]

\* start_agent: the returned Option<Child> with what the call did on the way.
start_agent(listening, resOk, entries, envVar, spawnOk, token) ==
  IF agent_already_running(listening)
  THEN [outcome |-> "AlreadyRunning", child |-> <<>>, dir |-> <<>>,
        fallback |-> FALSE, attempts |-> 0]
  ELSE LET dir == ResolveAgentDir(resOk, entries, envVar)
           fb == BundledCandidate(resOk, entries) = <<>>
       IN IF dir \notin entries
          THEN [outcome |-> "NotFound", child |-> <<>>, dir |-> <<dir>>,
                fallback |-> fb, attempts |-> 0]
          ELSE IF spawnOk
               THEN [outcome |-> "Running", child |-> <<AgentCommand(dir, token)>>,
                     dir |-> <<dir>>, fallback |-> fb, attempts |-> 1]
               ELSE [outcome |-> "SpawnFailed", child |-> <<>>, dir |-> <<dir>>,
                     fallback |-> fb, attempts |-> 1]

\* A setup closure that passes a spawn failure on to its caller.
SetupResult_SpawnErr(r) == IF r.outcome = "SpawnFailed" THEN "Err" ELSE "Ok"

\* What the setup closure returns once start_agent has returned r: Ok(()).
SetupResult(r) == "Ok"

\* ------------------------------------------------------------- Init
Hosts == 1 .. NumHosts
Handlers == 1 .. NumHandlers

\* No launch has begun on the machine.
InitHosts ==
  /\ hostPc = [h \in Hosts |-> "start"]
  /\ hostSaw = [h \in Hosts |-> FALSE]
  /\ portAtProbe = [h \in Hosts |-> FALSE]
  /\ hostChild = [h \in Hosts |-> <<>>]
  /\ agentProc = [h \in Hosts |-> "none"]
  /\ portOwner = <<>>

\* The machine a launch may find.
InitMachine ==
  /\ portListening \in BOOLEAN
  /\ resourceDirOk \in BOOLEAN
  /\ entryDirs \in SUBSET AgentDirs
  /\ (~resourceDirOk => BundledDir \notin entryDirs)
  /\ installDirVar \in {<<>>, <<CustomInstallDir>>}
  /\ clock \in ClockReads
  /\ pid \in Pids

\* A machine with nothing on the port and the agent in the bundle.
BundleMachine ==
  /\ portListening = FALSE
  /\ resourceDirOk = TRUE
  /\ entryDirs = {BundledDir}
  /\ installDirVar = <<>>
  /\ clock = 0
  /\ pid = 1

\* The process before main runs.
InitProgram ==
  /\ phase = "start"
  /\ local_token = <<>>
  /\ LocalToken = <<>>
  /\ agentManaged = FALSE
  /\ AgentProcess = <<>>
  /\ supervisor = "Idle"
  /\ agentDir = <<>>
  /\ fallbackConsulted = FALSE
  /\ spawnAttempts = 0
  /\ spawned = {}
  /\ deepLinkSubscribed = FALSE
  /\ killCalls = 0
  /\ lastKill = <<>>
  /\ windows = {}
  /\ windowsCreated = 0
  /\ lastEvent = <<>>
  /\ destroyedSeen = 0
  /\ tokenReads = {}
  /\ arrived = <<>>
  /\ evalCalls = <<>>

\* No closure running; no launch recorded, no query made.
InitLock ==
  /\ hPc = [h \in Handlers |-> "idle"]
  /\ hEvent = [h \in Handlers |-> <<>>]
  /\ hFoundHeld = [h \in Handlers |-> FALSE]
  /\ hKills = [h \in Handlers |-> 0]
  /\ lockHolder = <<>>

InitAux == launches = <<>> /\ metrics = <<>> /\ InitLock

Init == InitMachine /\ InitProgram /\ InitHosts /\ InitAux

\* main, lines 104-118: format the token and register it.
MainStart ==
  /\ phase = "start"
  /\ local_token' = FormatToken(clock, pid)
  /\ LocalToken' = <<local_token'>>
  /\ phase' = "built"
  /\ UNCHANGED <<auxVars, hostVars, envVars, agentManaged, AgentProcess, supervisor, agentDir, fallbackConsulted,
                 spawnAttempts, spawned, deepLinkSubscribed, childVars, uiVars>>

\* The setup closure: the updater plugin (its error leaves the closure with ?),
\* start_agent, app.manage, and the deep-link subscription.
Setup ==
  /\ phase = "built"
  /\ \E updaterOk \in BOOLEAN, spawnOk \in BOOLEAN :
       IF ~updaterOk
       THEN /\ phase' = "failed"
            /\ UNCHANGED <<agentManaged, AgentProcess, supervisor, agentDir, fallbackConsulted,
                           spawnAttempts, spawned, deepLinkSubscribed>>
       ELSE LET r == start_agent(portListening, resourceDirOk, entryDirs, installDirVar,
                                 spawnOk, local_token)
            IN /\ AgentProcess' = r.child
               /\ agentManaged' = TRUE
               /\ supervisor' = r.outcome
               /\ agentDir' = r.dir
               /\ fallbackConsulted' = r.fallback
               /\ spawnAttempts' = spawnAttempts + r.attempts
               /\ spawned' = spawned \cup {r.child[i] : i \in 1 .. Len(r.child)}
               /\ deepLinkSubscribed' = TRUE
               /\ phase' = IF SetupResult(r) = "Ok" THEN "running" ELSE "failed"
  /\ UNCHANGED <<auxVars, hostVars, envVars, local_token, LocalToken, childVars, uiVars>>

\* ------------------------------------------------- windows and events
\* The on_window_event closure, lines 144-154: what it does to the stored
\* handle, given the event, try_state::<AgentProcess>() and the Option<Child>
\* behind the lock.  lock() blocks until the mutex is free and fails only on a
\* poisoned mutex; no code path panics while holding it.
\* (First, a closure that never kills, and one that kills on every
\* Destroyed event whether or not a handle is stored.)
on_window_event_KillAny(event, managed, proc) == [kill |-> event = "Destroyed", proc |-> proc]

on_window_event_NoKill(event, managed, proc) == [kill |-> FALSE, proc |-> proc]

on_window_event(event, managed, proc) ==
  IF event = "Destroyed" /\ managed /\ proc # <<>>
  THEN [kill |-> TRUE, proc |-> proc]
  ELSE [kill |-> FALSE, proc |-> proc]

\* A webview window comes into existence (from the configuration before the
\* setup closure runs, or on the UI's request later).
CreateWindow(w) ==
  /\ phase \in {"built", "running"}
  /\ w \notin windows
  /\ windowsCreated < MaxWindows
  /\ windows' = windows \cup {w}
  /\ windowsCreated' = windowsCreated + 1
  /\ UNCHANGED <<auxVars, hostVars, envVars, progVars, childVars, lastEvent, destroyedSeen, tokenReads,
                 arrived, evalCalls>>

\* The event loop, which runs once setup has returned Ok, hands a window
\* event to the closure.  Destroyed is the window's last event; the
\* application exits when its last window is gone.  child.kill() is never
\* preceded by a wait, so every call reaches the OS; its result is discarded.
WindowEvent(w, event) ==
  /\ phase = "running"
  /\ w \in windows
  /\ LET h == on_window_event(event, agentManaged, AgentProcess)
     IN /\ AgentProcess' = h.proc
        /\ IF h.kill
           THEN /\ killCalls' = killCalls + 1
                /\ \E res \in {"Ok", "Err"} : lastKill' = <<res>>
           ELSE UNCHANGED <<killCalls, lastKill>>
        /\ destroyedSeen' = IF event = "Destroyed" /\ AgentProcess # <<>>
                            THEN destroyedSeen + 1 ELSE destroyedSeen
  /\ windows' = IF event = "Destroyed" THEN windows \ {w} ELSE windows
  /\ phase' = IF windows' = {} THEN "exited" ELSE phase
  /\ lastEvent' = <<[window |-> w, event |-> event]>>
  /\ UNCHANGED <<auxVars, hostVars, envVars, local_token, LocalToken, agentManaged, supervisor, agentDir,
                 fallbackConsulted, spawnAttempts, spawned, deepLinkSubscribed,
                 windowsCreated, tokenReads, arrived, evalCalls>>

\* The UI of some window invokes the get_local_token command.
GetLocalToken ==
  /\ phase = "running"
  /\ windows # {}
  /\ tokenReads' = tokenReads \cup {get_local_token(LocalToken)}
  /\ UNCHANGED <<auxVars, hostVars, envVars, progVars, childVars, windows, windowsCreated, lastEvent,
                 destroyedSeen, arrived, evalCalls>>

\* ------------------------------------------------ the deep-link bridge
\* Url::to_string() of the URLs the OS may deliver.  The scheme is not a
\* special one, so a backslash in the path is kept as it is.
U1 == <<"e", ":", "a">>
U2 == <<"e", ":", "\\", "b">>
Batches == {<<>>, <<U1>>, <<U2>>, <<U1, U2>>, <<U2, U1>>}

\* serde_json::to_string(&str): quoted, with quote and backslash escaped.
RECURSIVE JsonEscape(_)
JsonEscape(s) ==
  IF s = <<>> THEN <<>>
  ELSE (IF Head(s) \in {"\"", "\\"} THEN <<"\\", Head(s)>> ELSE <<Head(s)>>)
       \o JsonEscape(Tail(s))

JsonToString(s) == <<"\"">> \o JsonEscape(s) \o <<"\"">>

\* format!("window.__handleDeepLink({})", json)
DeepLinkScript(url) ==
  [call |-> "window.__handleDeepLink", argument |-> JsonToString(url)]

\* A closure that forwards every URL of the batch.
RECURSIVE on_open_url_All(_, _, _)
on_open_url_All(urls, mainWindow, evals) ==
  IF urls = <<>> \/ ~mainWindow THEN evals
  ELSE on_open_url_All(Tail(urls), mainWindow, Append(evals, DeepLinkScript(Head(urls))))

\* A closure that does not look for the window.
on_open_url_NoWindow(urls, mainWindow, evals) ==
  IF urls # <<>> THEN Append(evals, DeepLinkScript(urls[1])) ELSE evals

\* The on_open_url closure, lines 128-140: the eval calls after the event.
on_open_url(urls, mainWindow, evals) ==
  IF urls # <<>> /\ mainWindow
  THEN Append(evals, DeepLinkScript(urls[1]))
  ELSE evals

OpenUrl(urls) ==
  /\ phase = "running"
  /\ deepLinkSubscribed
  /\ Len(arrived) < MaxLinks
  /\ arrived' = Append(arrived, [urls |-> urls, window |-> "main" \in windows])
  /\ evalCalls' = on_open_url(urls, "main" \in windows, evalCalls)
  /\ UNCHANGED <<auxVars, hostVars, envVars, progVars, childVars, windows, windowsCreated, lastEvent,
                 destroyedSeen, tokenReads>>

\* ------------------------------------------------------ specifications
\* One launch on every machine state, without deep links.
Next ==
  \/ MainStart
  \/ Setup
  \/ \E w \in WindowLabels : CreateWindow(w)
  \/ \E w \in WindowLabels, e \in WindowEvents : WindowEvent(w, e)
  \/ GetLocalToken

Spec == Init /\ [][Next]_vars

\* One launch with deep links, on a machine where an agent already listens
\* (the bridge reads nothing of the supervisor's state, only the window).
InitBridge ==
  /\ Init
  /\ portListening
  /\ resourceDirOk
  /\ entryDirs = {BundledDir}
  /\ installDirVar = <<>>
  /\ clock = 0
  /\ pid = 1

NextBridge ==
  \/ MainStart
  \/ Setup
  \/ \E w \in WindowLabels : CreateWindow(w)
  \/ \E w \in WindowLabels, e \in WindowEvents : WindowEvent(w, e)
  \/ GetLocalToken
  \/ \E urls \in Batches : OpenUrl(urls)

SpecBridge == InitBridge /\ [][NextBridge]_vars

\* One launch with every kind of event, on a machine where the agent is
\* found in the bundle and nothing listens on the port.
InitEvents == Init /\ BundleMachine

SpecEvents == InitEvents /\ [][NextBridge]_vars
\* ------------------------------------- several launches on one machine
\* Each host runs start_agent as main.rs does; what the model separates is
\* the TcpStream::connect of the probe from the rest of the call, and the
\* spawn of a child from the moment that child listens on the port.  Every
\* host finds the agent in its bundle.

\* agent_already_running() of host h: the connect succeeds if the port is bound.
HostProbe(h) ==
  /\ hostPc[h] = "start"
  /\ hostSaw' = [hostSaw EXCEPT ![h] = agent_already_running(portOwner # <<>>)]
  /\ portAtProbe' = [portAtProbe EXCEPT ![h] = portOwner # <<>>]
  /\ hostPc' = [hostPc EXCEPT ![h] = "probed"]
  /\ UNCHANGED <<auxVars, envVars, progVars, childVars, uiVars, hostChild, agentProc, portOwner>>

\* The rest of start_agent with the probe's answer, and app.manage.
HostStart(h) ==
  /\ hostPc[h] = "probed"
  /\ \E spawnOk \in BOOLEAN :
       LET r == start_agent(hostSaw[h], TRUE, {BundledDir}, <<>>, spawnOk, FormatToken(0, h))
       IN /\ hostChild' = [hostChild EXCEPT ![h] = r.child]
          /\ agentProc' = [agentProc EXCEPT ![h] = IF r.child # <<>> THEN "starting" ELSE "none"]
  /\ hostPc' = [hostPc EXCEPT ![h] = "done"]
  /\ UNCHANGED <<auxVars, envVars, progVars, childVars, uiVars, hostSaw, portAtProbe, portOwner>>

\* The child of host h reaches its listen call: it binds the port if it is
\* free and otherwise goes on without it.
AgentListen(h) ==
  /\ agentProc[h] = "starting"
  /\ IF portOwner = <<>>
     THEN /\ portOwner' = <<h>>
          /\ agentProc' = [agentProc EXCEPT ![h] = "listening"]
     ELSE /\ agentProc' = [agentProc EXCEPT ![h] = "noport"]
          /\ UNCHANGED portOwner
  /\ UNCHANGED <<auxVars, envVars, progVars, childVars, uiVars, hostPc, hostSaw, portAtProbe, hostChild>>

\* An agent that no host of the model manages starts listening.
ExternalAgent ==
  /\ portOwner = <<>>
  /\ portOwner' = <<0>>
  /\ UNCHANGED <<auxVars, envVars, progVars, childVars, uiVars, hostPc, hostSaw, portAtProbe,
                 hostChild, agentProc>>

\* The window of host h is destroyed: the closure kills the stored child.
HostDestroyed(h) ==
  /\ hostPc[h] = "done"
  /\ LET e == on_window_event("Destroyed", TRUE, hostChild[h])
     IN /\ hostChild' = [hostChild EXCEPT ![h] = e.proc]
        /\ agentProc' = [agentProc EXCEPT ![h] = IF e.kill THEN "killed" ELSE @]
        /\ portOwner' = IF e.kill /\ portOwner = <<h>> THEN <<>> ELSE portOwner
  /\ hostPc' = [hostPc EXCEPT ![h] = "closed"]
  /\ UNCHANGED <<auxVars, envVars, progVars, childVars, uiVars, hostSaw, portAtProbe>>

\* The agents that some running host spawned and holds.
ManagedAgents == {h \in Hosts : hostChild[h] # <<>> /\ agentProc[h] \notin {"none", "killed"}}

InitMulti ==
  /\ InitProgram
  /\ InitHosts
  /\ InitAux
  /\ BundleMachine

NextHosts ==
  \/ \E h \in Hosts : HostProbe(h)
  \/ \E h \in Hosts : HostStart(h)
  \/ \E h \in Hosts : AgentListen(h)
  \/ \E h \in Hosts : HostDestroyed(h)
  \/ ExternalAgent

SpecHosts == InitMulti /\ [][NextHosts]_vars
\* ------------------------------------------- the token across launches
\* The process otherwise idle: the machine of InitMulti, nothing begun.
InitIdle == InitMulti

\* The claim about tokens compares two launches: a first and a second.
LaunchPair == {"first", "second"}

\* One more launch reaches lines 104-111 of main: it reads the clock and its
\* pid and formats its token.
LaunchToken ==
  /\ Len(launches) < Cardinality(LaunchPair)
  /\ \E now \in -1 .. MaxTokNanos, p \in 1 .. MaxTokPid :
       launches' = Append(launches, [clock |-> now, pid |-> p, token |-> FormatToken(now, p)])
  /\ UNCHANGED <<envVars, progVars, childVars, uiVars, hostVars, metrics, lockVars>>

NextToken == LaunchToken

SpecToken == InitIdle /\ [][NextToken]_vars

\* --------------------------------------------------- the metrics query
\* 1_048_576 and 1_073_741_824.0
BytesPerMb == 1048576
BytesPerGb == 1073741824

\* What sysinfo may report: per-core usage in percent, memory in bytes with
\* used <= total, and per mounted volume its total and available bytes
\* (available may transiently exceed total).
CpuSamples == {<<>>, <<0>>, <<100>>, <<50, 100>>}
MemReads == {k * (BytesPerMb \div 2) : k \in 0 .. MaxMemUnits}
Volumes == [total : 0 .. MaxBytes, available : 0 .. MaxBytes]
DiskLists == UNION {[1 .. n -> Volumes] : n \in 0 .. MaxDisks}

\* iter().sum() of a sequence of unsigned integers
RECURSIVE SumSeq(_)
SumSeq(q) == IF q = <<>> THEN 0 ELSE Head(q) + SumSeq(Tail(q))

\* An unsigned subtraction left unchecked: below zero when b > a.
saturating_sub_Unchecked(a, b) == a - b

\* u64::saturating_sub
saturating_sub(a, b) == IF a >= b THEN a - b ELSE 0

\* get_system_metrics, lines 25-54.  A float is the exact quotient num/den
\* (the conversions to f32 and f64 and the divisions are monotone).
get_system_metrics(cpus, usedMem, totalMem, disks) ==
  LET cpu_count == Len(cpus)
      cpu_usage_percent == IF cpu_count > 0 THEN [num |-> SumSeq(cpus), den |-> cpu_count]
                                            ELSE [num |-> 0, den |-> 1]
      disk_total_bytes == SumSeq([i \in 1 .. Len(disks) |-> disks[i].total])
      disk_available_bytes == SumSeq([i \in 1 .. Len(disks) |-> disks[i].available])
      disk_used_bytes == saturating_sub(disk_total_bytes, disk_available_bytes)
  IN [disk_total_bytes |-> disk_total_bytes,
      disk_available_bytes |-> disk_available_bytes,
      disk_used_bytes |-> disk_used_bytes,
      out |-> [cpu_usage_percent |-> cpu_usage_percent,
               memory_used_mb |-> usedMem \div BytesPerMb,
               memory_total_mb |-> totalMem \div BytesPerMb,
               disk_used_gb |-> [num |-> disk_used_bytes, den |-> BytesPerGb],
               disk_total_gb |-> [num |-> disk_total_bytes, den |-> BytesPerGb]]]

\* What the machine will report to the next query.
Samples ==
  {m \in [cpus : CpuSamples, usedMem : MemReads, totalMem : MemReads, disks : DiskLists,
          result : {<<>>}] : m.usedMem <= m.totalMem}

InitMetrics ==
  /\ InitProgram
  /\ InitHosts
  /\ InitLock
  /\ BundleMachine
  /\ launches = <<>>
  /\ metrics \in {<<m>> : m \in Samples}

\* The UI invokes get_system_metrics, which computes its snapshot from the sample.
GetSystemMetrics ==
  /\ metrics # <<>>
  /\ metrics[1].result = <<>>
  /\ LET m == metrics[1]
     IN metrics' = <<[m EXCEPT !.result =
                        <<get_system_metrics(m.cpus, m.usedMem, m.totalMem, m.disks)>>]>>
  /\ UNCHANGED <<envVars, progVars, childVars, uiVars, hostVars, launches, lockVars>>

NextMetrics == GetSystemMetrics

SpecMetrics == InitMetrics /\ [][NextMetrics]_vars

\* ---------------------------------- window-event closures on threads
\* Spec 5 lets the window-destruction callback run on event-dispatch
\* threads; here each closure run is a thread of its own, and the steps of
\* lines 145-152 are separate: the match and try_state, state.0.lock(), and
\* the body under the guard, which is dropped at the end of the if-let.

\* A try_lock in its place: an error when the mutex is held.
mutex_lock_Try(holder, h) == IF holder = <<>> THEN "Ok" ELSE "Err"

\* Mutex::lock, line 147: Ok once the mutex is free, and until then the
\* calling thread is blocked.  Err is a poisoned mutex, which needs a panic
\* under the guard: the body has none.
mutex_lock(holder, h) == IF holder = <<>> THEN "Ok" ELSE "Blocked"

\* Lines 145-146: a thread is handed a window event.
HandlerDispatch(h, event) ==
  /\ phase = "running"
  /\ hPc[h] = "idle"
  /\ hEvent' = [hEvent EXCEPT ![h] = <<event>>]
  /\ hPc' = [hPc EXCEPT ![h] = IF event = "Destroyed" /\ agentManaged THEN "lock" ELSE "done"]
  /\ UNCHANGED <<envVars, progVars, childVars, uiVars, hostVars, launches, metrics,
                 hFoundHeld, hKills, lockHolder>>

\* Line 147: if let Ok(mut guard) = state.0.lock().
HandlerLock(h) ==
  /\ hPc[h] = "lock"
  /\ LET res == mutex_lock(lockHolder, h)
     IN CASE res = "Ok" ->
               /\ lockHolder' = <<h>>
               /\ hPc' = [hPc EXCEPT ![h] = "critical"]
               /\ UNCHANGED hFoundHeld
          [] res = "Blocked" ->
               /\ ~hFoundHeld[h]
               /\ hFoundHeld' = [hFoundHeld EXCEPT ![h] = TRUE]
               /\ UNCHANGED <<hPc, lockHolder>>
          [] OTHER ->
               /\ hFoundHeld' = [hFoundHeld EXCEPT ![h] = lockHolder # <<>>]
               /\ hPc' = [hPc EXCEPT ![h] = "done"]
               /\ UNCHANGED lockHolder
  /\ UNCHANGED <<envVars, progVars, childVars, uiVars, hostVars, launches, metrics,
                 hEvent, hKills>>

\* Lines 148-151: the body under the guard, then the guard is dropped.
HandlerCritical(h) ==
  /\ hPc[h] = "critical"
  /\ LET r == on_window_event(hEvent[h][1], agentManaged, AgentProcess)
     IN /\ AgentProcess' = r.proc
        /\ IF r.kill
           THEN /\ killCalls' = killCalls + 1
                /\ hKills' = [hKills EXCEPT ![h] = @ + 1]
                /\ \E res \in {"Ok", "Err"} : lastKill' = <<res>>
           ELSE UNCHANGED <<killCalls, hKills, lastKill>>
  /\ lockHolder' = <<>>
  /\ hPc' = [hPc EXCEPT ![h] = "done"]
  /\ UNCHANGED <<envVars, phase, local_token, LocalToken, agentManaged, supervisor, agentDir,
                 fallbackConsulted, spawnAttempts, spawned, deepLinkSubscribed, uiVars,
                 hostVars, launches, metrics, hEvent, hFoundHeld>>

NextLock ==
  \/ MainStart
  \/ Setup
  \/ \E h \in Handlers, e \in WindowEvents : HandlerDispatch(h, e)
  \/ \E h \in Handlers : HandlerLock(h)
  \/ \E h \in Handlers : HandlerCritical(h)

SpecLock == InitEvents /\ [][NextLock]_vars

\* =============================================================== claims
SetupDone == phase \in {"running", "exited"}

\* A step in which a window is destroyed: only the Destroyed event removes one.
DestroyedStep == windows' # windows /\ windows' \subseteq windows

\* The entry file is in the bundled location.
BundledHasEntry == resourceDirOk /\ BundledDir \in entryDirs

\* The entry file is in the directory EDGECODER_INSTALL_DIR names, or in
\* /opt/edgecoder/app when the variable is unset.
InstallHasEntry ==
  \/ installDirVar = <<>> /\ DefaultInstallDir \in entryDirs
  \/ installDirVar # <<>> /\ installDirVar[1] \in entryDirs

\* C1: in a launch whose probe of 127.0.0.1:4301 succeeds, start_agent
\* spawns no child and the stored handle is absent in every state of the launch.
C1_ProbeRunningNoSpawn ==
  portListening => (spawnAttempts = 0 /\ spawned = {} /\ AgentProcess = <<>>)

C1_Witness ==
  /\ portListening
  /\ BundledHasEntry
  /\ supervisor = "AlreadyRunning"
  /\ phase = "exited"

\* C2: with a handle stored, after any number of Destroyed events the child
\* has been sent the kill exactly once (the first event kills, later ones do not).
C2_KilledExactlyOnce == destroyedSeen >= 1 => killCalls = 1

\* C3: every value get_local_token returns is the one token of the launch,
\* and INFERENCE_AUTH_TOKEN and ADMIN_API_TOKEN of every spawned child equal it.
C3_TokenConsistency ==
  /\ \A t \in tokenReads : t = local_token /\ t # <<>>
  /\ \A c \in spawned : \A t \in tokenReads \cup {local_token} :
       c.INFERENCE_AUTH_TOKEN = t /\ c.ADMIN_API_TOKEN = t

C3_Witness ==
  /\ tokenReads # {}
  /\ spawned # {}
  /\ killCalls > 0
  /\ phase = "running"

\* C4: in state Running, a Destroyed event issues one kill to the stored
\* child; whatever the kill returns, the handler ends there: one call, the
\* handle as it was, the application still running or exiting normally.
C4_DestroyedKills ==
  [][(supervisor = "Running" /\ DestroyedStep) =>
       /\ killCalls' = killCalls + 1
       /\ lastKill' \in {<<"Ok">>, <<"Err">>}
       /\ AgentProcess' = AgentProcess
       /\ phase' \in {"running", "exited"}]_vars

C4_Witness ==
  /\ supervisor = "Running"
  /\ killCalls = 1
  /\ lastKill = <<"Err">>
  /\ lastEvent # <<>> /\ lastEvent[1].event = "Destroyed"

\* C5: when the probe reports not running and the bundled location has the
\* entry file, the agent directory is the bundled one whatever the state of
\* the installation directory; EDGECODER_INSTALL_DIR is read only when the
\* bundled candidate is unavailable or lacks the entry file.
C5_BundleWins ==
  /\ (SetupDone /\ ~portListening /\ BundledHasEntry) =>
       (agentDir = <<BundledDir>> /\ ~fallbackConsulted)
  /\ fallbackConsulted => ~BundledHasEntry

C5_Witness ==
  /\ SetupDone
  /\ ~portListening
  /\ BundledHasEntry
  /\ installDirVar = <<CustomInstallDir>>
  /\ CustomInstallDir \in entryDirs
  /\ agentDir = <<BundledDir>>

\* C6: when neither the bundled location nor the installation directory has
\* the entry file, no spawn is attempted and the stored handle stays absent.
C6_NotFoundNoSpawn ==
  (~BundledHasEntry /\ ~InstallHasEntry) =>
    (spawnAttempts = 0 /\ spawned = {} /\ AgentProcess = <<>>)

C6_Witness ==
  /\ SetupDone
  /\ supervisor = "NotFound"
  /\ installDirVar = <<CustomInstallDir>>
  /\ DefaultInstallDir \in entryDirs
  /\ agentManaged

\* C7: whatever the startup sequence ends in (AlreadyRunning, NotFound,
\* SpawnFailed, Running), setup has returned Ok with the handle state
\* registered, and the handle is absent in the three outcomes without a child.
C7_SetupNeverAborted ==
  /\ supervisor \in {"AlreadyRunning", "NotFound", "SpawnFailed", "Running"} =>
       /\ SetupDone
       /\ agentManaged
       /\ (supervisor # "Running" => AgentProcess = <<>>)
       /\ (supervisor = "Running" => AgentProcess # <<>>)
  /\ phase = "failed" => supervisor = "Idle"

C7_Witness ==
  /\ supervisor = "SpawnFailed"
  /\ phase = "running"
  /\ spawnAttempts = 1
  /\ AgentProcess = <<>>

\* The string a JSON string literal denotes (the UI's reading of the argument).
RECURSIVE JsonUnescape(_)
JsonUnescape(s) ==
  IF s = <<>> THEN <<>>
  ELSE IF Head(s) = "\\" /\ Len(s) >= 2
       THEN <<s[2]>> \o JsonUnescape(Tail(Tail(s)))
       ELSE <<Head(s)>> \o JsonUnescape(Tail(s))

JsonParse(j) ==
  IF Len(j) >= 2 /\ j[1] = "\"" /\ j[Len(j)] = "\""
  THEN <<JsonUnescape(SubSeq(j, 2, Len(j) - 1))>>
  ELSE <<>>

\* C8: a deep-link event forwards at most one URL to the UI, the first of
\* its batch; an empty batch forwards nothing, and nothing forwarded earlier
\* is touched.
C8_FirstUrlOnly ==
  [][arrived' # arrived =>
       LET e == arrived'[Len(arrived')]
           new == SubSeq(evalCalls', Len(evalCalls) + 1, Len(evalCalls'))
       IN /\ Len(evalCalls') >= Len(evalCalls)
          /\ SubSeq(evalCalls', 1, Len(evalCalls)) = evalCalls
          /\ Len(new) <= 1
          /\ (e.urls = <<>> => new = <<>>)
          /\ \A i \in 1 .. Len(new) :
               /\ new[i].call = "window.__handleDeepLink"
               /\ JsonParse(new[i].argument) = <<e.urls[1]>>]_vars

C8_Witness ==
  /\ arrived # <<>>
  /\ arrived[Len(arrived)].urls = <<U2, U1>>
  /\ arrived[Len(arrived)].window
  /\ evalCalls # <<>>
  /\ evalCalls[Len(evalCalls)].argument = <<"\"", "e", ":", "\\", "\\", "b", "\"">>

\* The URLs the UI is due: the first URL of each event that came with a
\* non-empty batch while the "main" window existed, in arrival order.
RECURSIVE Delivered(_)
Delivered(log) ==
  IF log = <<>> THEN <<>>
  ELSE (IF Head(log).urls # <<>> /\ Head(log).window THEN <<Head(log).urls[1]>> ELSE <<>>)
       \o Delivered(Tail(log))

\* C9: an event that arrives while no "main" window exists is dropped and
\* never delivered later; the URLs delivered reach the UI in arrival order.
C9_DroppedNeverReplayed ==
  /\ Len(evalCalls) = Len(Delivered(arrived))
  /\ \A i \in 1 .. Len(evalCalls) :
       JsonParse(evalCalls[i].argument) = <<Delivered(arrived)[i]>>

C9_Witness ==
  /\ Len(arrived) = 3
  /\ ~arrived[1].window /\ arrived[1].urls = <<U1>>
  /\ arrived[2].window /\ arrived[2].urls = <<U2>>
  /\ arrived[3].window /\ arrived[3].urls = <<U1, U2>>
  /\ Len(evalCalls) = 2
  /\ "main" \in windows

\* C10: with several hosts launching on one machine, in any interleaving of
\* their probes and spawns, at most one agent is spawned and held at a time.
C10_AtMostOneManaged == Cardinality(ManagedAgents) <= 1

\* C10, amended: a host holds an agent only if nothing listened on the port
\* at the moment of its own probe.
C10_ManagedOnlyIfPortWasFree ==
  \A h \in Hosts : hostChild[h] # <<>> => ~portAtProbe[h]

C10_Witness ==
  \E h \in Hosts, g \in Hosts :
    /\ h # g
    /\ hostPc[h] = "done" /\ portAtProbe[h] /\ hostChild[h] = <<>>
    /\ hostChild[g] # <<>> /\ agentProc[g] = "listening"

\* The timestamp a launch puts in its token: zero when the clock read failed.
TokenTimestamp(l) == IF l.clock < 0 THEN 0 ELSE l.clock

\* C11: two launches whose (timestamp, process id) pairs differ have
\* distinct tokens, a timestamp being zero where the clock read failed.
C11_TokenUnique ==
  \A i \in 1 .. Len(launches), j \in 1 .. Len(launches) :
    (TokenTimestamp(launches[i]) # TokenTimestamp(launches[j]) \/ launches[i].pid # launches[j].pid)
      => launches[i].token # launches[j].token

C11_Witness ==
  /\ Len(launches) = 2
  /\ launches[1].clock = -1 /\ launches[1].pid = 11
  /\ launches[2].clock = 1 /\ launches[2].pid = 1
  /\ launches[1].token = <<"l", "o", "c", "a", "l", "-", "0", "-", "1", "1">>
  /\ launches[2].token # launches[1].token

\* C12: in get_system_metrics the used bytes are total minus available when
\* available <= total and zero otherwise, for the summed counts; the used
\* disk reported is never below zero and never above the total reported.
C12_DiskUsedSaturates ==
  \A i \in 1 .. Len(metrics) : \A k \in 1 .. Len(metrics[i].result) :
    LET r == metrics[i].result[k]
        total == r.disk_total_bytes
        available == r.disk_available_bytes
    IN /\ available <= total => r.disk_used_bytes + available = total
       /\ available > total => r.disk_used_bytes = 0
       /\ r.out.disk_used_gb.num >= 0
       /\ r.out.disk_used_gb.den = r.out.disk_total_gb.den
       /\ r.out.disk_used_gb.den > 0
       /\ r.out.disk_used_gb.num <= r.out.disk_total_gb.num

C12_Witness ==
  /\ metrics # <<>>
  /\ Len(metrics[1].disks) = 2
  /\ metrics[1].disks[1] = [total |-> 2, available |-> 1]
  /\ metrics[1].disks[2] = [total |-> 0, available |-> 2]
  /\ metrics[1].result # <<>>
  /\ metrics[1].result[1].disk_used_bytes = 0
  /\ metrics[1].result[1].out.disk_total_gb.num = 2

\* C13: once the window-destruction handler has run on a stored handle, the
\* handle state holds no handle.
C13_HandleDrained == destroyedSeen >= 1 => AgentProcess = <<>>

\* C14: one launch makes at most one spawn attempt and has at most one
\* child; the handle is what setup stored, and once setup is done no event
\* (deep link, window event, UI query) spawns, stores or replaces anything.
C14_SingleSpawn ==
  /\ [](/\ spawnAttempts <= 1
        /\ Cardinality(spawned) <= 1
        /\ (AgentProcess # <<>> => AgentProcess[1] \in spawned))
  /\ [][SetupDone => /\ spawned' = spawned
                     /\ spawnAttempts' = spawnAttempts
                     /\ AgentProcess' = AgentProcess
                     /\ agentManaged' = agentManaged]_vars

C14_Witness ==
  /\ phase = "running"
  /\ spawnAttempts = 1
  /\ AgentProcess # <<>>
  /\ Len(arrived) >= 1
  /\ tokenReads # {}
  /\ killCalls >= 1

\* C15: only the Destroyed event of the "main" window signals the child: a
\* Destroyed event of another window, and any other window event, leaves
\* the kill count and the stored handle as they were.
C15_OnlyHostWindowDestroyed ==
  [][(/\ lastEvent' # lastEvent
      /\ lastEvent' # <<>>
      /\ ~(lastEvent'[1].window = "main" /\ lastEvent'[1].event = "Destroyed"))
     => (killCalls' = killCalls /\ AgentProcess' = AgentProcess)]_vars

\* C17: a kill is issued only to a child this launch spawned; a launch that
\* ended startup in AlreadyRunning, NotFound or SpawnFailed never issues one.
C17_KillOnlyOwnChild ==
  /\ supervisor \in {"AlreadyRunning", "NotFound", "SpawnFailed"} =>
       (killCalls = 0 /\ lastKill = <<>>)
  /\ killCalls > 0 => (AgentProcess # <<>> /\ AgentProcess[1] \in spawned)

C17_Witness ==
  /\ portListening
  /\ supervisor = "AlreadyRunning"
  /\ windowsCreated = 2
  /\ phase = "exited"
  /\ lastEvent # <<>> /\ lastEvent[1].event = "Destroyed"
  /\ killCalls = 0

\* C16: a window-destruction handler that finds the handle lock held by
\* another handler skips the termination and returns without waiting.
C16_SkipsWhenLockHeld ==
  \A h \in Handlers : hFoundHeld[h] => (hPc[h] = "done" /\ hKills[h] = 0)

\* C16, amended: a handler that finds the lock held waits for it; no
\* Destroyed handler returns before it has gone through the critical
\* section, where it issues one kill if a handle is stored, and none is retried.
C16_WaitsThenKills ==
  \A h \in Handlers :
    /\ hFoundHeld[h] => hPc[h] \in {"lock", "critical", "done"}
    /\ hKills[h] <= 1
    /\ (hPc[h] = "done" /\ hEvent[h] = <<"Destroyed">>) =>
         hKills[h] = (IF AgentProcess # <<>> THEN 1 ELSE 0)

C16_Witness ==
  \E h \in Handlers, g \in Handlers :
    /\ h # g
    /\ hFoundHeld[h] /\ hPc[h] = "done" /\ hKills[h] = 1
    /\ ~hFoundHeld[g] /\ hPc[g] = "done" /\ hKills[g] = 1
    /\ lockHolder = <<>>
====
